---- MODULE Spec2Model ----
(***************************************************************************)
(* Verification model of the crabby_dns wire-format codec.                 *)
(*                                                                         *)
(* The codec is single-threaded: every operation is a function of the      *)
(* buffer (storage + cursor) and its arguments.  Each operation is an      *)
(* operator computed as the Rust code computes it, and an action applies   *)
(* it to the buffer state.  Outcomes are "Ok", the BufferError variants    *)
(* "ReadOverrun" / "WriteOverrun", and "Panic" for the todo!() macros,     *)
(* which abort the process.                                                *)
(*                                                                         *)
(* Strings are sequences of Unicode code points; bytes are 0..255.         *)
(***************************************************************************)
EXTENDS Integers, Sequences, FiniteSets, TLC

VARIABLES buf, pos, last, enc

vars == <<buf, pos, last, enc>>

(***************************************************************************)
(* Program constants                                                       *)
(***************************************************************************)
BUF_SIZE == 512

DSER_MAX_JUMPS == 5

\* Option::None of first_jump_pos (positions are >= 0)
None == -1

\* usize::MAX, scaled down: all that matters of it is that it is far above
\* BUF_SIZE and that sums past it do not fit
USIZE_MAX == 65535

(***************************************************************************)
(* Bounds of the model                                                     *)
(***************************************************************************)
\* longest byte slice enumerated for fill_from_slice in the name decoder runs
MaxFill == 4

\* largest small cursor value enumerated for seek
MaxSeek == 4

\* longest chain of compression pointers built as an input, beyond DSER_MAX_JUMPS
MaxChainOver == 1

\* most labels of a cycle of labels and a pointer built as an input
MaxCycleLabels == 2

\* most labels of a name given to the encoder
MaxLabels == 4

\* most entries (questions and records) laid out after a received header
MaxChunks == 2

MaxQuestions == 2

MaxData == 2

(***************************************************************************)
(* Bit arithmetic on naturals (Rust &, |, ^, <<, >> on unsigned integers)  *)
(***************************************************************************)
RECURSIVE BitAnd(_, _)
BitAnd(x, y) ==
    IF x = 0 \/ y = 0 THEN 0
    ELSE (x % 2) * (y % 2) + 2 * BitAnd(x \div 2, y \div 2)

RECURSIVE BitOr(_, _)
BitOr(x, y) ==
    IF x = 0 THEN y
    ELSE IF y = 0 THEN x
    ELSE (IF x % 2 = 1 \/ y % 2 = 1 THEN 1 ELSE 0) + 2 * BitOr(x \div 2, y \div 2)

RECURSIVE BitXor(_, _)
BitXor(x, y) ==
    IF x = 0 THEN y
    ELSE IF y = 0 THEN x
    ELSE ((x + y) % 2) + 2 * BitXor(x \div 2, y \div 2)

RECURSIVE Pow2(_)
Pow2(n) == IF n = 0 THEN 1 ELSE 2 * Pow2(n - 1)

\* x << n on a w-bit unsigned integer (n < w): the bits shifted out are dropped
Shl(x, n, w) == (x * Pow2(n)) % Pow2(w)

Shr(x, n) == x \div Pow2(n)

\* `x as u8`
AsU8(x) == x % 256

(***************************************************************************)
(* BytePacketBuffer                                                        *)
(***************************************************************************)
Byte == 0..255

\* BytePacketBuffer::new(): buf: [0; BUF_SIZE], pos: 0
NewBuf == [i \in 0..(BUF_SIZE - 1) |-> 0]

\* (variant of fill_from_slice that takes nothing from a slice that is not
\* shorter than the storage)
fill_from_slice_short_only(b, in_buf) ==
    IF Len(in_buf) < BUF_SIZE
    THEN [i \in 0..(BUF_SIZE - 1) |-> IF i < Len(in_buf) THEN in_buf[i + 1] ELSE b[i]]
    ELSE b

\* fill_from_slice: copies min(len, BUF_SIZE) bytes to the front of the storage
\* and leaves every other position as it was
fill_from_slice(b, in_buf) ==
    IF Len(in_buf) < BUF_SIZE
    THEN [i \in 0..(BUF_SIZE - 1) |-> IF i < Len(in_buf) THEN in_buf[i + 1] ELSE b[i]]
    ELSE [i \in 0..(BUF_SIZE - 1) |-> in_buf[i + 1]]

peek(b, p) ==
    IF p >= BUF_SIZE
    THEN [kind |-> "ReadOverrun", val |-> 0]
    ELSE [kind |-> "Ok", val |-> b[p]]

\* a + b on usize.  When the sum does not fit, a build with overflow checks
\* (checks = TRUE, the default of debug builds) panics, here None, and a build
\* without them wraps around.
usize_add(a, b, checks) ==
    IF a + b <= USIZE_MAX THEN a + b
    ELSE IF checks THEN None
    ELSE (a + b) % (USIZE_MAX + 1)

\* step: self.pos += num_steps
step(p, num_steps, checks) ==
    LET new_pos == usize_add(p, num_steps, checks) IN
    IF new_pos = None THEN [kind |-> "Panic", pos |-> p]
    ELSE [kind |-> "Ok", pos |-> new_pos]

\* peek_slice: &self.buf[start..start + len] panics when start is past the
\* end of the range, which a wrapped sum makes possible
peek_slice(b, start, len, checks) ==
    LET end == usize_add(start, len, checks) IN
    IF end = None THEN [kind |-> "Panic", val |-> <<>>]
    ELSE IF end >= BUF_SIZE THEN [kind |-> "ReadOverrun", val |-> <<>>]
    ELSE IF start > end THEN [kind |-> "Panic", val |-> <<>>]
    ELSE [kind |-> "Ok", val |-> [i \in 1..len |-> b[start + i - 1]]]

\* (variant of pop that moves the cursor also when it fails)
pop_steps_on_overrun(b, p) ==
    IF p >= BUF_SIZE
    THEN [kind |-> "ReadOverrun", val |-> 0, pos |-> p + 1]
    ELSE [kind |-> "Ok", val |-> b[p], pos |-> p + 1]

pop(b, p) ==
    IF p >= BUF_SIZE
    THEN [kind |-> "ReadOverrun", val |-> 0, pos |-> p]
    ELSE [kind |-> "Ok", val |-> b[p], pos |-> p + 1]

\* (variant of pop_u16 that puts the cursor back where it was when it fails)
pop_u16_atomic(b, p) ==
    LET r1 == pop(b, p) IN
    IF r1.kind # "Ok" THEN r1
    ELSE LET r2 == pop(b, r1.pos) IN
         IF r2.kind # "Ok" THEN [r2 EXCEPT !.pos = p]
         ELSE [kind |-> "Ok", val |-> BitOr(Shl(r1.val, 8, 16), r2.val), pos |-> r2.pos]

\* pop_u16: ((pop()? as u16) << 8) | (pop()? as u16), operands left to right
pop_u16(b, p) ==
    LET r1 == pop(b, p) IN
    IF r1.kind # "Ok" THEN r1
    ELSE LET r2 == pop(b, r1.pos) IN
         IF r2.kind # "Ok" THEN r2
         ELSE [kind |-> "Ok", val |-> BitOr(Shl(r1.val, 8, 16), r2.val), pos |-> r2.pos]

\* a u32 value, held as its high and low 16-bit halves: (hi << 16) | lo
U32(hi, lo) == <<hi, lo>>

\* (variant of pop_u32 that takes the low half of the value first)
pop_u32_low_first(b, p) ==
    LET lo == pop_u16(b, p) IN
    IF lo.kind # "Ok" THEN lo
    ELSE LET hi == pop_u16(b, lo.pos) IN
         IF hi.kind # "Ok" THEN hi
         ELSE [kind |-> "Ok", val |-> U32(hi.val, lo.val), pos |-> hi.pos]

\* pop_u32: the four pops shifted by 24, 16, 8 and 0 bits, left to right
pop_u32(b, p) ==
    LET r1 == pop(b, p) IN
    IF r1.kind # "Ok" THEN r1
    ELSE LET r2 == pop(b, r1.pos) IN
    IF r2.kind # "Ok" THEN r2
    ELSE LET r3 == pop(b, r2.pos) IN
    IF r3.kind # "Ok" THEN r3
    ELSE LET r4 == pop(b, r3.pos) IN
    IF r4.kind # "Ok" THEN r4
    ELSE [kind |-> "Ok",
          val |-> U32(BitOr(Shl(r1.val, 8, 16), r2.val),
                      BitOr(Shl(r3.val, 8, 16), r4.val)),
          pos |-> r4.pos]

push(b, p, data) ==
    IF p >= BUF_SIZE
    THEN [kind |-> "WriteOverrun", buf |-> b, pos |-> p]
    ELSE [kind |-> "Ok", buf |-> [b EXCEPT ![p] = data], pos |-> p + 1]

RECURSIVE PushEach(_, _, _)
PushEach(b, p, data) ==
    IF data = <<>> THEN [kind |-> "Ok", buf |-> b, pos |-> p]
    ELSE LET r == push(b, p, Head(data)) IN
         IF r.kind # "Ok" THEN r ELSE PushEach(r.buf, r.pos, Tail(data))

push_slice(b, p, data, checks) ==
    LET end == usize_add(p, Len(data), checks) IN
    IF end = None THEN [kind |-> "Panic", buf |-> b, pos |-> p]
    ELSE IF end >= BUF_SIZE THEN [kind |-> "WriteOverrun", buf |-> b, pos |-> p]
    ELSE PushEach(b, p, data)

push_u16(b, p, data) ==
    LET r1 == push(b, p, AsU8(BitAnd(Shr(data, 8), 255))) IN
    IF r1.kind # "Ok" THEN r1
    ELSE push(r1.buf, r1.pos, AsU8(BitAnd(data, 255)))

\* push_u32, data held as its two 16-bit halves
push_u32(b, p, data) ==
    LET r1 == push_u16(b, p, data[1]) IN
    IF r1.kind # "Ok" THEN r1
    ELSE push_u16(r1.buf, r1.pos, data[2])

(***************************************************************************)
(* DomainName                                                              *)
(***************************************************************************)
Dot == 46

\* U+FFFD REPLACEMENT CHARACTER
Replacement == 65533

\* String::from_utf8_lossy, byte by byte.  Exact for ASCII bytes and for bytes
\* that can never be part of a valid UTF-8 sequence on their own (lone
\* continuation bytes 0x80..0xBF, 0xC0, 0xC1, 0xF5..0xFF): each of those
\* becomes one U+FFFD.  Lead bytes 0xC2..0xF4 are not in the byte alphabets
\* the model enumerates.
from_utf8_lossy(bytes) ==
    [i \in 1..Len(bytes) |-> IF bytes[i] < 128 THEN bytes[i] ELSE Replacement]

\* str::to_lowercase on the code points that occur: ASCII 'A'..'Z' fold to
\* 'a'..'z'; every other ASCII code point and U+FFFD are unchanged
to_lowercase(s) ==
    [i \in 1..Len(s) |-> IF s[i] >= 65 /\ s[i] <= 90 THEN s[i] + 32 ELSE s[i]]

\* (variant of label_text that keeps the case of the label)
label_text_keep_case(label) == from_utf8_lossy(label)

\* (variant of jump_pos that does not mask the two marker bits)
jump_pos_unmasked(len, lo) == BitOr(Shl(len, 8, 16), lo)

\* (len & 0xC0) == 0xC0
is_pointer(len) == BitAnd(len, 192) = 192

\* (variant of too_many_jumps with a ceiling twice as high)
too_many_jumps_late(jump_count) == jump_count > 2 * DSER_MAX_JUMPS

\* jump_count > Self::DSER_MAX_JUMPS
too_many_jumps(jump_count) == jump_count > DSER_MAX_JUMPS

\* What happens once the jump ceiling is passed: todo!() aborts the process
on_too_many_jumps == "Panic"

\* ((len as u16) << 8 | buf.pop()? as u16) ^ 0xC000
jump_pos(len, lo) == BitXor(BitOr(Shl(len, 8, 16), lo), 49152)

\* String::from_utf8_lossy(label).to_lowercase()
label_text(label) == to_lowercase(from_utf8_lossy(label))

\* (variant of with_separator that appends the separator after every label)
with_separator_always(dn, next) == Append(dn, Dot)

\* if buf.peek()? != 0 { dn.0.push('.') }
with_separator(dn, next) == IF next # 0 THEN Append(dn, Dot) ELSE dn

\* The loop of DomainName::deserialize; st carries the locals dn, jump_count
\* and first_jump_pos, the cursor, iters, the number of finished iterations,
\* and trail, the values of cur_pos of the iterations begun
\* (pos + len cannot overflow here: pos < BUF_SIZE and len <= 63, so the
\* build's overflow checks make no difference)
RECURSIVE DnLoop(_, _)
DnLoop(b, st) ==
    LET cur_pos == st.pos
        tr == Append(st.trail, cur_pos)
        r1 == pop(b, cur_pos)
        len == r1.val
    IN
    IF r1.kind # "Ok" THEN [st EXCEPT !.trail = tr, !.kind = r1.kind, !.pos = r1.pos]
    ELSE IF len = 0 THEN [st EXCEPT !.trail = tr, !.kind = "Ok", !.pos = r1.pos, !.iters = @ + 1]
    ELSE IF is_pointer(len)
    THEN LET fjp == IF st.first_jump_pos = None THEN cur_pos ELSE st.first_jump_pos
             jc == st.jump_count + 1
         IN
         IF too_many_jumps(jc)
         THEN [st EXCEPT !.trail = tr, !.kind = on_too_many_jumps, !.pos = r1.pos, !.jump_count = jc,
                         !.first_jump_pos = fjp]
         ELSE LET r2 == pop(b, r1.pos) IN
              IF r2.kind # "Ok"
              THEN [st EXCEPT !.trail = tr, !.kind = r2.kind, !.pos = r2.pos, !.jump_count = jc,
                              !.first_jump_pos = fjp]
              ELSE DnLoop(b, [st EXCEPT !.trail = tr, !.pos = jump_pos(len, r2.val), !.jump_count = jc,
                                        !.first_jump_pos = fjp, !.iters = @ + 1])
    ELSE LET r3 == peek_slice(b, r1.pos, len, TRUE) IN
         IF r3.kind # "Ok" THEN [st EXCEPT !.trail = tr, !.kind = r3.kind, !.pos = r1.pos]
         ELSE LET dn1 == st.dn \o label_text(r3.val)
                  p2 == r1.pos + len
                  r4 == peek(b, p2)
              IN
              IF r4.kind # "Ok" THEN [st EXCEPT !.trail = tr, !.kind = r4.kind, !.pos = p2, !.dn = dn1]
              ELSE DnLoop(b, [st EXCEPT !.trail = tr, !.pos = p2, !.dn = with_separator(dn1, r4.val),
                                        !.iters = @ + 1])

\* if let Some(pos) = first_jump_pos { buf.seek(pos + 2) }: the cursor after
\* the loop ended with the cursor at loop_pos
\* (variant of resume_pos that seeks to the starting position + 2)
resume_pos_from_start(start, first_jump_pos, loop_pos) ==
    IF first_jump_pos # None THEN start + 2 ELSE loop_pos

resume_pos(start, first_jump_pos, loop_pos) ==
    IF first_jump_pos # None THEN first_jump_pos + 2 ELSE loop_pos

\* DomainName::deserialize: the loop, then the seek past the first pointer
DomainName_deserialize(b, p) ==
    LET r == DnLoop(b, [kind |-> "Ok", pos |-> p, dn |-> <<>>, jump_count |-> 0,
                        first_jump_pos |-> None, iters |-> 0, trail |-> <<>>])
    IN
    IF r.kind = "Ok"
    THEN [r EXCEPT !.pos = resume_pos(p, r.first_jump_pos, r.pos)]
    ELSE r

\* str::split('.'): the pieces between the dots, at least one piece
RECURSIVE Split(_)
Split(s) ==
    IF \A i \in 1..Len(s) : s[i] # Dot THEN <<s>>
    ELSE LET k == CHOOSE i \in 1..Len(s) :
                      s[i] = Dot /\ \A j \in 1..(i - 1) : s[j] # Dot
         IN <<SubSeq(s, 1, k - 1)>> \o Split(SubSeq(s, k + 1, Len(s)))

\* The for loop of DomainName::serialize over the labels still to write.
\* Names given to the encoder are ASCII, so label.len() is the number of
\* code points and label.as_bytes() the code points themselves.  The cursor
\* is at most BUF_SIZE and a label is short, so no sum overflows.
RECURSIVE SerLabels(_, _, _)
SerLabels(labels, b, p) ==
    IF labels = <<>> THEN [kind |-> "Ok", buf |-> b, pos |-> p]
    ELSE LET label == Head(labels)
             len == Len(label)
         IN
         IF len > 63 THEN [kind |-> "Panic", buf |-> b, pos |-> p]
         ELSE LET r1 == push(b, p, AsU8(len)) IN
              IF r1.kind # "Ok" THEN r1
              ELSE LET r2 == push_slice(r1.buf, r1.pos, label, TRUE) IN
                   IF r2.kind # "Ok" THEN r2
                   ELSE SerLabels(Tail(labels), r2.buf, r2.pos)

\* dn.0.len() + 1 > 255
name_too_long(dn) == Len(dn) + 1 > 255

\* DomainName::serialize; both length checks end in todo!()
DomainName_serialize(dn, b, p) ==
    IF name_too_long(dn) THEN [kind |-> "Panic", buf |-> b, pos |-> p]
    ELSE LET r == SerLabels(Split(dn), b, p) IN
         IF r.kind # "Ok" THEN r
         ELSE push(r.buf, r.pos, 0)

(***************************************************************************)
(* Header                                                                  *)
(***************************************************************************)
\* enum variants: a tag, and the payload of Unknown (0 for the named variants)
Variant(tag) == [tag |-> tag, val |-> 0]

Unknown(v) == [tag |-> "Unknown", val |-> v]

\* impl From<MessageType> for bool / From<bool> for MessageType
bool_from_MessageType(mt) == mt = "Response"

MessageType_from_bool(val) == IF val THEN "Response" ELSE "Query"

\* impl From<OpCode> for u8 / From<u8> for OpCode
u8_from_OpCode(oc) == IF oc.tag = "Query" THEN 0 ELSE oc.val

OpCode_from_u8(val) == IF val = 0 THEN Variant("Query") ELSE Unknown(val)

\* impl From<ResponseCode> for u8 / From<u8> for ResponseCode
u8_from_ResponseCode(rc) ==
    CASE rc.tag = "NoError" -> 0
      [] rc.tag = "FormatError" -> 1
      [] rc.tag = "ServFail" -> 2
      [] rc.tag = "NameError" -> 3
      [] rc.tag = "NotImpl" -> 4
      [] rc.tag = "Refused" -> 5
      [] OTHER -> rc.val

ResponseCode_from_u8(val) ==
    CASE val = 0 -> Variant("NoError")
      [] val = 1 -> Variant("FormatError")
      [] val = 2 -> Variant("ServFail")
      [] val = 3 -> Variant("NameError")
      [] val = 4 -> Variant("NotImpl")
      [] val = 5 -> Variant("Refused")
      [] OTHER -> Unknown(val)

\* `b as u16` of a bool
BoolAsU16(x) == IF x THEN 1 ELSE 0

\* Header::new()
Header_new ==
    [id |-> 0, message_type |-> "Query", op_code |-> Variant("Query"),
     authoritative_answer |-> FALSE, truncation |-> FALSE,
     recursion_desired |-> FALSE, recursion_available |-> FALSE,
     authentic_data |-> FALSE, checking_disabled |-> FALSE,
     response_code |-> Variant("NoError"),
     question_count |-> 0, answer_count |-> 0, authority_count |-> 0,
     additional_count |-> 0]

\* the flags word built by Header::serialize
flags_of(hdr) ==
    LET f1 == BitOr(0, Shl(BoolAsU16(bool_from_MessageType(hdr.message_type)), 15, 16))
        f2 == BitOr(f1, Shl(u8_from_OpCode(hdr.op_code), 11, 16))
        f3 == BitOr(f2, Shl(BoolAsU16(hdr.authoritative_answer), 10, 16))
        f4 == BitOr(f3, Shl(BoolAsU16(hdr.truncation), 9, 16))
        f5 == BitOr(f4, Shl(BoolAsU16(hdr.recursion_desired), 8, 16))
        f6 == BitOr(f5, Shl(BoolAsU16(hdr.recursion_available), 7, 16))
        f7 == BitOr(f6, Shl(BoolAsU16(hdr.authentic_data), 5, 16))
        f8 == BitOr(f7, Shl(BoolAsU16(hdr.checking_disabled), 4, 16))
    IN BitOr(f8, u8_from_ResponseCode(hdr.response_code))

\* consecutive push_u16(..)? calls
RECURSIVE PushU16Each(_, _, _)
PushU16Each(b, p, words) ==
    IF words = <<>> THEN [kind |-> "Ok", buf |-> b, pos |-> p]
    ELSE LET r == push_u16(b, p, Head(words)) IN
         IF r.kind # "Ok" THEN r ELSE PushU16Each(r.buf, r.pos, Tail(words))

\* Header::serialize
Header_serialize(hdr, b, p) ==
    PushU16Each(b, p, <<hdr.id, flags_of(hdr), hdr.question_count, hdr.answer_count,
                        hdr.authority_count, hdr.additional_count>>)

\* consecutive pop_u16()? calls
RECURSIVE PopU16Each(_, _, _)
PopU16Each(b, p, n) ==
    IF n = 0 THEN [kind |-> "Ok", vals |-> <<>>, pos |-> p]
    ELSE LET r == pop_u16(b, p) IN
         IF r.kind # "Ok" THEN [kind |-> r.kind, vals |-> <<>>, pos |-> r.pos]
         ELSE LET rest == PopU16Each(b, r.pos, n - 1) IN
              [rest EXCEPT !.vals = <<r.val>> \o @]

\* (variant of op_code_of_flags that shifts the field down before the cast)
op_code_of_flags_shifted(flags) ==
    OpCode_from_u8(AsU8(Shr(BitAnd(flags, Shl(15, 11, 16)), 11)))

\* ((flags & (0xF << 11)) as u8).into()
op_code_of_flags(flags) == OpCode_from_u8(AsU8(BitAnd(flags, Shl(15, 11, 16))))

\* (variant of response_code_of_flags that reads three bits)
response_code_of_flags_3bits(flags) == ResponseCode_from_u8(AsU8(BitAnd(flags, 7)))

\* ((flags & 0xF) as u8).into()
response_code_of_flags(flags) == ResponseCode_from_u8(AsU8(BitAnd(flags, 15)))

flag_bit(flags, n) == BitAnd(flags, Shl(1, n, 16)) # 0

\* Header::deserialize
Header_deserialize(b, p) ==
    LET r == PopU16Each(b, p, 6) IN
    IF r.kind # "Ok" THEN [kind |-> r.kind, hdr |-> Header_new, pos |-> r.pos]
    ELSE LET flags == r.vals[2] IN
         [kind |-> "Ok", pos |-> r.pos,
          hdr |-> [id |-> r.vals[1],
                   message_type |-> MessageType_from_bool(flag_bit(flags, 15)),
                   op_code |-> op_code_of_flags(flags),
                   authoritative_answer |-> flag_bit(flags, 10),
                   truncation |-> flag_bit(flags, 9),
                   recursion_desired |-> flag_bit(flags, 8),
                   recursion_available |-> flag_bit(flags, 7),
                   authentic_data |-> flag_bit(flags, 5),
                   checking_disabled |-> flag_bit(flags, 4),
                   response_code |-> response_code_of_flags(flags),
                   question_count |-> r.vals[3], answer_count |-> r.vals[4],
                   authority_count |-> r.vals[5], additional_count |-> r.vals[6]]]

(***************************************************************************)
(* Question, ResourceRecord, Message                                       *)
(***************************************************************************)
\* impl From<u16> for RRType / RRClass
RRType_from_u16(val) == IF val = 1 THEN Variant("A") ELSE Unknown(val)

RRClass_from_u16(val) == IF val = 1 THEN Variant("IN") ELSE Unknown(val)

\* impl From<u16> for QueryType / QueryClass: a known RRType / RRClass is
\* wrapped (inner names it), an unknown one keeps its number
QueryType_from_u16(val) ==
    LET rrtype == RRType_from_u16(val) IN
    IF rrtype.tag = "Unknown"
    THEN [tag |-> "Unknown", val |-> rrtype.val, inner |-> ""]
    ELSE [tag |-> "RRType", val |-> 0, inner |-> rrtype.tag]

QueryClass_from_u16(val) ==
    LET rrclass == RRClass_from_u16(val) IN
    IF rrclass.tag = "Unknown"
    THEN [tag |-> "Unknown", val |-> rrclass.val, inner |-> ""]
    ELSE [tag |-> "RRClass", val |-> 0, inner |-> rrclass.tag]

Failed(kind, p) == [kind |-> kind, val |-> <<>>, pos |-> p]

\* `let v = e;` followed by f: e is computed once and f uses its value
Let(e, f(_)) == CHOOSE out \in {f(v) : v \in {e}} : TRUE

\* Question::deserialize
Question_deserialize(b, p) ==
    Let(DomainName_deserialize(b, p), LAMBDA dn :
    IF dn.kind # "Ok" THEN Failed(dn.kind, dn.pos)
    ELSE Let(pop_u16(b, dn.pos), LAMBDA qtype :
    IF qtype.kind # "Ok" THEN Failed(qtype.kind, qtype.pos)
    ELSE Let(pop_u16(b, qtype.pos), LAMBDA qclass :
    IF qclass.kind # "Ok" THEN Failed(qclass.kind, qclass.pos)
    ELSE [kind |-> "Ok", pos |-> qclass.pos,
          val |-> [domain_name |-> dn.dn, qtype |-> QueryType_from_u16(qtype.val),
                   qclass |-> QueryClass_from_u16(qclass.val)]])))

\* ((octets >> n) & 0xFF) as u8 on a u32 held as two halves (n a multiple of 8)
OctetOf(octets, n) ==
    LET half == IF n >= 16 THEN octets[1] ELSE octets[2] IN
    AsU8(BitAnd(Shr(half, n % 16), 255))

\* (variant of Ipv4Addr_new that takes the octets low byte first)
Ipv4Addr_new_low_first(octets) ==
    <<OctetOf(octets, 0), OctetOf(octets, 8), OctetOf(octets, 16), OctetOf(octets, 24)>>

\* the octets of Ipv4Addr::new(octets >> 24 & 0xFF, ..., octets & 0xFF)
Ipv4Addr_new(octets) ==
    <<OctetOf(octets, 24), OctetOf(octets, 16), OctetOf(octets, 8), OctetOf(octets, 0)>>

\* the match on rr.rrtype: RRData::A(ip) after four more bytes, or
\* RRData::Unknown(rr.rrdata_len) with nothing more read
ResourceRecord_rrdata(b, p, rr) ==
    IF rr.rrtype.tag = "A"
    THEN Let(pop_u32(b, p), LAMBDA octets :
         IF octets.kind # "Ok" THEN Failed(octets.kind, octets.pos)
         ELSE [kind |-> "Ok", pos |-> octets.pos,
               val |-> rr @@ [rrdata |-> [tag |-> "A", ip |-> Ipv4Addr_new(octets.val),
                                         len |-> 0]]])
    ELSE [kind |-> "Ok", pos |-> p,
          val |-> rr @@ [rrdata |-> [tag |-> "Unknown", ip |-> <<>>,
                                     len |-> rr.rrdata_len]]]

\* ResourceRecord::deserialize; rrdata is RRData::A(ip) or RRData::Unknown(len)
ResourceRecord_deserialize(b, p) ==
    Let(DomainName_deserialize(b, p), LAMBDA dn :
    IF dn.kind # "Ok" THEN Failed(dn.kind, dn.pos)
    ELSE Let(pop_u16(b, dn.pos), LAMBDA rrtype :
    IF rrtype.kind # "Ok" THEN Failed(rrtype.kind, rrtype.pos)
    ELSE Let(pop_u16(b, rrtype.pos), LAMBDA rrclass :
    IF rrclass.kind # "Ok" THEN Failed(rrclass.kind, rrclass.pos)
    ELSE Let(pop_u32(b, rrclass.pos), LAMBDA ttl :
    IF ttl.kind # "Ok" THEN Failed(ttl.kind, ttl.pos)
    ELSE Let(pop_u16(b, ttl.pos), LAMBDA rrdata_len :
    IF rrdata_len.kind # "Ok" THEN Failed(rrdata_len.kind, rrdata_len.pos)
    ELSE ResourceRecord_rrdata(b, rrdata_len.pos,
             [domain_name |-> dn.dn, rrtype |-> RRType_from_u16(rrtype.val),
              rrclass |-> RRClass_from_u16(rrclass.val), ttl |-> ttl.val,
              rrdata_len |-> rrdata_len.val]))))))

\* One decode call made by Message::deserialize, as it is logged in calls
Call(what, start, r) == [what |-> what, start |-> start, kind |-> r.kind, end |-> r.pos]

\* (variant of on_entry_error that skips the failed entry and goes on)
on_entry_error_skip(kind) == "Ok"

\* msg.questions.push(Question::deserialize(buf)?): the ? returns the error
on_entry_error(kind) == kind

\* for _ in 0..n { items.push(Question::deserialize(buf)?) }
RECURSIVE Questions(_, _, _)
Questions(b, p, n) ==
    IF n = 0 THEN [kind |-> "Ok", items |-> <<>>, pos |-> p, calls |-> <<>>]
    ELSE Let(Question_deserialize(b, p), LAMBDA r :
         IF r.kind # "Ok"
         THEN [kind |-> on_entry_error(r.kind), items |-> <<>>, pos |-> r.pos,
               calls |-> <<Call("Question", p, r)>>]
         ELSE Let(Questions(b, r.pos, n - 1), LAMBDA rest :
              [rest EXCEPT !.items = <<r.val>> \o @,
                           !.calls = <<Call("Question", p, r)>> \o @]))

\* for _ in 0..n { items.push(ResourceRecord::deserialize(buf)?) }
RECURSIVE Records(_, _, _)
Records(b, p, n) ==
    IF n = 0 THEN [kind |-> "Ok", items |-> <<>>, pos |-> p, calls |-> <<>>]
    ELSE Let(ResourceRecord_deserialize(b, p), LAMBDA r :
         IF r.kind # "Ok"
         THEN [kind |-> on_entry_error(r.kind), items |-> <<>>, pos |-> r.pos,
               calls |-> <<Call("ResourceRecord", p, r)>>]
         ELSE Let(Records(b, r.pos, n - 1), LAMBDA rest :
              [rest EXCEPT !.items = <<r.val>> \o @,
                           !.calls = <<Call("ResourceRecord", p, r)>> \o @]))

\* Message::new()
Message_new ==
    [header |-> Header_new, questions |-> <<>>, answers |-> <<>>,
     authorities |-> <<>>, additionals |-> <<>>]

\* Question::new
Question_new(domain_name, qtype, qclass) ==
    [domain_name |-> domain_name, qtype |-> qtype, qclass |-> qclass]

\* a + b on u16.  When the sum does not fit, a build with overflow checks
\* panics, here None, and a build without them wraps around.
u16_add(a, b, checks) ==
    IF a + b < Pow2(16) THEN a + b
    ELSE IF checks THEN None
    ELSE (a + b) % Pow2(16)

\* Message::push_question: self.questions.push(question), then
\* self.header.question_count += 1 on a u16
push_question(msg, question, checks) ==
    LET count == u16_add(msg.header.question_count, 1, checks) IN
    [kind |-> IF count = None THEN "Panic" ELSE "Ok",
     msg |-> [msg EXCEPT !.questions = Append(@, question),
                         !.header.question_count = IF count = None THEN @ ELSE count]]

\* impl Serialize for Message: serialize(buf: Self) -> &[u8] is &[0u8][..];
\* it is given no output buffer and returns a slice of one zero byte
Message_serialize(msg) == <<0>>

\* (variant of section_order that reads the additional records before the
\* authority records)
section_order_swapped(hdr) ==
    <<hdr.answer_count, hdr.additional_count, hdr.authority_count>>

\* the three record loops, in the order of the code: answers, authorities,
\* additionals
section_order(hdr) == <<hdr.answer_count, hdr.authority_count, hdr.additional_count>>

\* the Err(e) that a ? in Message::deserialize returns: the Message built so
\* far is dropped
Message_err(kind, at, calls) ==
    [kind |-> kind, msg |-> Message_new, pos |-> at, calls |-> calls]

\* Message::deserialize.  calls is the sequence of decode calls made, in order.
Message_deserialize(b, p) ==
    Let(Header_deserialize(b, p), LAMBDA h :
    IF h.kind # "Ok" THEN Message_err(h.kind, h.pos, <<Call("Header", p, h)>>)
    ELSE Let(Questions(b, h.pos, h.hdr.question_count), LAMBDA q :
    IF q.kind # "Ok"
    THEN Message_err(q.kind, q.pos, <<Call("Header", p, h)>> \o q.calls)
    ELSE Let(Records(b, q.pos, section_order(h.hdr)[1]), LAMBDA an :
    IF an.kind # "Ok"
    THEN Message_err(an.kind, an.pos, <<Call("Header", p, h)>> \o q.calls \o an.calls)
    ELSE Let(Records(b, an.pos, section_order(h.hdr)[2]), LAMBDA ns :
    IF ns.kind # "Ok"
    THEN Message_err(ns.kind, ns.pos,
                     <<Call("Header", p, h)>> \o q.calls \o an.calls \o ns.calls)
    ELSE Let(Records(b, ns.pos, section_order(h.hdr)[3]), LAMBDA ar :
    IF ar.kind # "Ok"
    THEN Message_err(ar.kind, ar.pos,
                     <<Call("Header", p, h)>> \o q.calls \o an.calls \o ns.calls
                         \o ar.calls)
    ELSE [kind |-> "Ok", pos |-> ar.pos,
          calls |-> <<Call("Header", p, h)>> \o q.calls \o an.calls \o ns.calls
                        \o ar.calls,
          msg |-> [header |-> h.hdr, questions |-> q.items, answers |-> an.items,
                   authorities |-> ns.items, additionals |-> ar.items]])))))

(***************************************************************************)
(* Inputs of the name decoder runs                                         *)
(***************************************************************************)
\* terminator / offset 0, lengths 1 and 2, 'A', and the pointer marker 0xC0
WireBytes == {0, 1, 2, 65, 192}

RECURSIVE SeqsUpTo(_, _)
SeqsUpTo(S, n) ==
    IF n = 0 THEN {<<>>}
    ELSE LET shorter == SeqsUpTo(S, n - 1) IN
         shorter \cup {Append(s, x) : s \in {t \in shorter : Len(t) = n - 1}, x \in S}

Zeros(n) == [i \in 1..n |-> 0]

\* byte 0 is a terminator; pointer k (k = 1..n) sits at offset 2k-1 and points
\* at pointer k-1 (pointer 1 points at the terminator)
ChainSlice(n) ==
    [i \in 1..(2 * n + 1) |->
        IF i = 1 THEN 0
        ELSE IF i % 2 = 0 THEN 192
        ELSE IF i = 3 THEN 0 ELSE i - 4]

\* slices whose last bytes land on the last positions of the storage
TailSlices == {Zeros(BUF_SIZE - Len(t)) \o t : t \in SeqsUpTo({1, 65, 192}, 2)}

\* n labels of len bytes 'A' each, one after the other
Labels(n, len) ==
    [i \in 1..(n * (len + 1)) |-> IF (i - 1) % (len + 1) = 0 THEN len ELSE 65]

\* runs of labels: labels of 63 bytes through all of the storage, the same
\* with a zero byte in place of the last label, and labels up to a pointer
\* that leads back to the first label
TrainSlices ==
    {Labels(BUF_SIZE \div 64, 63), Labels((BUF_SIZE \div 64) - 1, 63),
     Labels(MaxCycleLabels, 1) \o <<192, 0>>}

DnSlices ==
    SeqsUpTo(WireBytes, MaxFill)
    \cup {ChainSlice(n) : n \in 1..(DSER_MAX_JUMPS + MaxChainOver)}
    \cup TailSlices
    \cup TrainSlices

SeekTargets ==
    (0..MaxSeek)
    \cup {2 * n - 1 : n \in 1..(DSER_MAX_JUMPS + MaxChainOver)}
    \cup {BUF_SIZE - 2, BUF_SIZE - 1, BUF_SIZE}

(***************************************************************************)
(* Inputs of the name encoder runs                                         *)
(***************************************************************************)
\* label lengths around the limit of 63 bytes
LabelLens == {1, 62, 63, 64}

\* label k of a name is made of the k-th lower-case letter
RECURSIVE NameOf(_, _)
NameOf(lens, k) ==
    IF lens = <<>> THEN <<>>
    ELSE LET label == [i \in 1..Head(lens) |-> 96 + k] IN
         IF Len(lens) = 1 THEN label
         ELSE label \o <<Dot>> \o NameOf(Tail(lens), k + 1)

\* the enumerated names, and two names with an empty label: "" and "a..c"
EncNames ==
    {NameOf(lens, 1) : lens \in SeqsUpTo(LabelLens, MaxLabels)}
    \cup {NameOf(<<0>>, 1), NameOf(<<1, 0, 1>>, 1)}

\* cursor values at which the encoder is started: the front of the storage and
\* the last positions where a short name still fits or no longer fits
EncStarts == {0, BUF_SIZE - 4, BUF_SIZE - 3}

(***************************************************************************)
(* Inputs of the header runs                                               *)
(***************************************************************************)
\* Unknown(16) is the least opcode that does not fit four bits
OpCodes == {Variant("Query"), Unknown(1), Unknown(15), Unknown(16)}

\* Unknown(64) is a response code that does not fit four bits
ResponseCodes ==
    {Variant("NoError"), Variant("FormatError"), Variant("Refused"), Unknown(6),
     Unknown(15), Unknown(64)}

\* the six flags: none, each one alone, all
FlagPatterns ==
    {[i \in 1..6 |-> FALSE], [i \in 1..6 |-> TRUE]}
    \cup {[i \in 1..6 |-> i = k] : k \in 1..6}

CountPatterns == {<<0, 0, 0, 0>>, <<1, 2, 3, 4>>, <<258, 0, 65535, 7>>}

Headers ==
    {[id |-> id, message_type |-> mt, op_code |-> oc,
      authoritative_answer |-> f[1], truncation |-> f[2], recursion_desired |-> f[3],
      recursion_available |-> f[4], authentic_data |-> f[5], checking_disabled |-> f[6],
      response_code |-> rc,
      question_count |-> c[1], answer_count |-> c[2], authority_count |-> c[3],
      additional_count |-> c[4]] :
        id \in {8186}, mt \in {"Query", "Response"}, oc \in OpCodes,
        f \in FlagPatterns, rc \in ResponseCodes, c \in CountPatterns}

\* received headers: id 0x1FFA, then every opcode and response code with the
\* other flag bits (the reserved bit 6 among them) clear, mixed or set
HdrSlices ==
    {<<31, 250, qr * 128 + oc * 8 + f, g * 16 + rc>> :
        qr \in {0, 1}, oc \in 0..15, f \in {0, 7}, g \in {0, 4, 15},
        rc \in (0..6) \cup {15}}

\* the front of the storage, and the last positions where 12 bytes fit or not
HdrStarts == {0, BUF_SIZE - 12, BUF_SIZE - 11}

(***************************************************************************)
(* Inputs of the message runs                                              *)
(***************************************************************************)
\* a question for "A", type A, class IN
ChunkQuestion == <<1, 65, 0, 0, 1, 0, 1>>

\* a question whose name is a pointer to offset 12, the first byte after the
\* header (a pointer to itself when the question is the first entry)
ChunkQuestionPtr == <<192, 12, 0, 1, 0, 1>>

\* an A record named by a pointer to offset 12, ttl 60, address 93.184.216.34
ChunkRecordA == <<192, 12, 0, 1, 0, 1, 0, 0, 0, 60, 0, 4, 93, 184, 216, 34>>

\* a record of type 5 with the root name, class 3, ttl 60 and 2 bytes of rdata
ChunkRecordOther == <<0, 0, 5, 0, 3, 0, 0, 0, 60, 0, 2, 7, 0>>

Chunks == {ChunkQuestion, ChunkQuestionPtr, ChunkRecordA, ChunkRecordOther}

RECURSIVE Flatten(_)
Flatten(ss) == IF ss = <<>> THEN <<>> ELSE Head(ss) \o Flatten(Tail(ss))

\* the four section counts of a received header
MsgCounts == {<<qd, an, ns, ar>> : qd \in 0..2, an \in 0..1, ns \in 0..1, ar \in 0..1}

\* a response header (id 0x1FFA, flags 0x8180) with the counts c
MsgHeader(c) ==
    <<31, 250, 129, 128, c[1] \div 256, c[1] % 256, c[2] \div 256, c[2] % 256,
      c[3] \div 256, c[3] % 256, c[4] \div 256, c[4] % 256>>

\* where a message near the end of the storage starts: room for the header,
\* two records and one question, and no more
TailStart == BUF_SIZE - 40

\* received messages at the front of the storage, messages that meet the end
\* of the storage in their entries, and one that meets it in its header
MsgSlices ==
    {MsgHeader(c) \o Flatten(body) : c \in MsgCounts, body \in SeqsUpTo(Chunks, MaxChunks)}
    \cup {Zeros(TailStart) \o MsgHeader(c) \o Flatten(body) :
              c \in MsgCounts, body \in SeqsUpTo(Chunks, MaxChunks - 1)}
    \cup {Zeros(BUF_SIZE - 5) \o <<1, 65, 0, 0, 1>>}

\* a message is decoded from the start of the storage or from its last bytes
MsgStarts == {0, TailStart, BUF_SIZE - 5}

(***************************************************************************)
(* Inputs of the record decoder runs                                       *)
(***************************************************************************)
\* where a record starts: after an earlier name "b" at offset 0
RrStart == 4

RrPrefix == <<1, 66, 0, 0>>

\* the record's name: the root, "A", or a pointer to the name at offset 0
RrNames == {<<0>>, <<1, 65, 0>>, <<192, 0>>}

\* type A, type 5 and type 257 (low byte 1); class IN and class 3; two ttls;
\* rdlength 0, 2 and 4
RrFixed ==
    {t \o c \o ttl \o <<0, n>> :
        t \in {<<0, 1>>, <<0, 5>>, <<1, 1>>}, c \in {<<0, 1>>, <<0, 3>>},
        ttl \in {<<0, 0, 0, 60>>, <<1, 2, 3, 4>>}, n \in {0, 2, 4}}

RrData == {<<93, 184, 216, 34>>, <<7, 0, 0, 1>>}

\* an A record whose last two address bytes lie past the end of the storage
RrTailStart == BUF_SIZE - 13

RrTail == <<0, 0, 1, 0, 1, 0, 0, 0, 60, 0, 4, 93, 184>>

RrSlices ==
    {RrPrefix \o n \o f \o d : n \in RrNames, f \in RrFixed, d \in RrData}
    \cup {Zeros(RrTailStart) \o RrTail}

RrStarts == {RrStart, RrTailStart}

(***************************************************************************)
(* Inputs of the message encoder runs                                      *)
(***************************************************************************)
\* "", "a" and "a.b", asked with type A or 5 and class IN or 3
AskedQuestions ==
    {Question_new(dn, QueryType_from_u16(t), QueryClass_from_u16(c)) :
        dn \in {<<>>, <<97>>, <<97, Dot, 98>>}, t \in {1, 5}, c \in {1, 3}}

\* the query of stub_resolve: Message::new(), recursion_desired = true, then
\* the questions pushed one by one
RECURSIVE QueryOf(_)
QueryOf(questions) ==
    IF questions = <<>>
    THEN [Message_new EXCEPT !.header.recursion_desired = TRUE]
    ELSE push_question(QueryOf(SubSeq(questions, 1, Len(questions) - 1)),
                       questions[Len(questions)], TRUE).msg

Queries == {QueryOf(qs) : qs \in SeqsUpTo(AskedQuestions, MaxQuestions)}

MsgEncStarts == {0, BUF_SIZE - 12}

\* the most questions a message can hold with its question_count telling
\* their number: u16::MAX
ManyQuestions == Pow2(16) - 1

\* the question that is pushed many times
OftenAsked == Question_new(<<97>>, QueryType_from_u16(1), QueryClass_from_u16(1))

(***************************************************************************)
(* Inputs of the buffer runs                                               *)
(***************************************************************************)
\* cursor values: the front, the last two positions, the capacity, and the
\* largest usize
BufCursors == {0, 1, BUF_SIZE - 2, BUF_SIZE - 1, BUF_SIZE, USIZE_MAX}

\* cursor values at which the write operations are started
WriteCursors == BufCursors \ {1}

StepSizes == {0, 1, BUF_SIZE, USIZE_MAX}

PeekStarts == {0, BUF_SIZE - 2, BUF_SIZE - 1, USIZE_MAX}

PeekLens == {0, 1, USIZE_MAX}

\* the byte written by the write operations
PushByte == 7

PushData == {[i \in 1..n |-> PushByte] : n \in 0..MaxData}

\* n bytes, none of them zero, the byte at position i telling i
Ramp(n) == [i \in 1..n |-> 1 + (i % 250)]

\* slices shorter than the capacity, of the capacity and longer
FillSlices == {<<>>, <<1, 2>>, Ramp(BUF_SIZE - 1), Ramp(BUF_SIZE), Ramp(BUF_SIZE + 1)}

(***************************************************************************)
(* Inputs of the multi-byte number runs                                    *)
(***************************************************************************)
\* the bytes of the pop_u16 / pop_u32 tests, and a full storage of bytes that
\* differ from their neighbours
NumSlices == {<<31, 250, 204, 55, 65, 27, 254, 18>>, Ramp(BUF_SIZE)}

\* cursor values of the reads: the front, the last positions where four, three,
\* two and one byte are left, the capacity and the largest usize
NumCursors ==
    {0, 1, 2, BUF_SIZE - 4, BUF_SIZE - 3, BUF_SIZE - 2, BUF_SIZE - 1, BUF_SIZE,
     USIZE_MAX}

\* cursor values of the writes
NumWriteCursors == {0, BUF_SIZE - 4, BUF_SIZE - 2}

\* u16 values, and u32 values as their halves: 0x1FFA, 0xFF00, 0x1FFACC37,
\* 0x80000001
NumValues(op) ==
    IF op = "push_u16" THEN {8186, 65280}
    ELSE {U32(8186, 52279), U32(32768, 1)}

(***************************************************************************)
(* State machine                                                           *)
(***************************************************************************)
NoCall == [op |-> "none"]

Init ==
    /\ buf = NewBuf
    /\ pos = 0
    /\ last = [op |-> "new"]
    /\ enc = NoCall

\* the process is gone after a todo!()
Alive == ~(last.op \in {"DomainName::deserialize", "DomainName::serialize",
                       "Message::deserialize", "ResourceRecord::deserialize",
                       "step", "peek_slice", "push_slice", "push_question"}
           /\ last.kind = "Panic")

\* fill_from_slice on the freshly created buffer, from one of the slices given
FillFromSlice(slices) ==
    /\ last.op = "new"
    /\ \E in_buf \in slices :
          /\ buf' = fill_from_slice(buf, in_buf)
          /\ last' = [op |-> "fill_from_slice", len |-> Len(in_buf),
                      in_buf |-> in_buf, start |-> pos]
    /\ UNCHANGED <<pos, enc>>

Seek(new_pos) ==
    /\ Alive
    /\ pos' = new_pos
    /\ last' = [op |-> "seek"]
    /\ UNCHANGED <<buf, enc>>

\* DomainName::deserialize at the cursor; the runs explored start at one of
\* the enumerated cursor values
DnDeserialize(starts) ==
    /\ Alive
    /\ pos \in starts
    /\ LET r == DomainName_deserialize(buf, pos) IN
       /\ pos' = r.pos
       /\ last' = [op |-> "DomainName::deserialize", start |-> pos, kind |-> r.kind,
                   dn |-> r.dn, jump_count |-> r.jump_count,
                   first_jump_pos |-> r.first_jump_pos, iters |-> r.iters,
                   trail |-> r.trail]
    /\ UNCHANGED <<buf, enc>>

\* DomainName::serialize into the buffer, once per buffer (a buffer is created
\* for one outgoing operation)
DnSerialize(names) ==
    /\ Alive
    /\ enc = NoCall
    /\ buf = NewBuf
    /\ \E dn \in names :
          LET r == DomainName_serialize(dn, buf, pos) IN
          /\ buf' = r.buf
          /\ pos' = r.pos
          /\ last' = [op |-> "DomainName::serialize", name |-> dn, start |-> pos,
                      kind |-> r.kind, end |-> r.pos]
          /\ enc' = last'

\* Header::serialize into the buffer, once per buffer
HeaderSerialize(hdrs) ==
    /\ Alive
    /\ enc = NoCall
    /\ buf = NewBuf
    /\ \E hdr \in hdrs :
          LET r == Header_serialize(hdr, buf, pos) IN
          /\ buf' = r.buf
          /\ pos' = r.pos
          /\ last' = [op |-> "Header::serialize", hdr |-> hdr, start |-> pos,
                      kind |-> r.kind, end |-> r.pos]
          /\ enc' = last'

HeaderDeserialize(starts) ==
    /\ Alive
    /\ pos \in starts
    /\ LET r == Header_deserialize(buf, pos) IN
       /\ pos' = r.pos
       /\ last' = [op |-> "Header::deserialize", start |-> pos, kind |-> r.kind,
                   hdr |-> r.hdr]
    /\ UNCHANGED <<buf, enc>>

MessageDeserialize(starts) ==
    /\ Alive
    /\ pos \in starts
    /\ \E r \in {Message_deserialize(buf, pos)} :
          /\ pos' = r.pos
          /\ last' = [op |-> "Message::deserialize", start |-> pos, kind |-> r.kind,
                      msg |-> r.msg, calls |-> r.calls]
    /\ UNCHANGED <<buf, enc>>

\* Message::serialize(qmsg) as the code has it: nothing is written
MessageSerialize(msgs) ==
    /\ Alive
    /\ enc = NoCall
    /\ buf = NewBuf
    /\ \E msg \in msgs :
          /\ last' = [op |-> "Message::serialize", msg |-> msg, start |-> pos,
                      kind |-> "Ok", out |-> Message_serialize(msg)]
          /\ enc' = last'
    /\ UNCHANGED <<buf, pos>>

\* Message::new()
MessageNew ==
    /\ last.op = "new"
    /\ last' = [op |-> "Message::new", kind |-> "Ok", msg |-> Message_new]
    /\ UNCHANGED <<buf, pos, enc>>

\* push_question on the message built so far; the runs explored push onto
\* short messages and onto messages at the limit of a u16
PushQuestion(questions, checks) ==
    /\ Alive
    /\ last.op \in {"Message::new", "push_question"}
    /\ Len(last.msg.questions) < MaxQuestions
          \/ Len(last.msg.questions) = ManyQuestions
    /\ \E question \in questions :
          \E r \in {push_question(last.msg, question, checks)} :
             last' = [op |-> "push_question", kind |-> r.kind, msg |-> r.msg,
                      question |-> question]
    /\ UNCHANGED <<buf, pos, enc>>

\* n calls of push_question(question) in a row on the new message, n at most
\* u16::MAX: no increment overflows, so the message has n questions and
\* question_count n
PushQuestionTimes(n, question) ==
    /\ last.op = "Message::new"
    /\ n <= ManyQuestions
    /\ last' = [op |-> "push_question", kind |-> "Ok", question |-> question,
                msg |-> [last.msg EXCEPT !.questions = [i \in 1..n |-> question],
                                         !.header.question_count = n]]
    /\ UNCHANGED <<buf, pos, enc>>

RrDeserialize(starts) ==
    /\ Alive
    /\ pos \in starts
    /\ \E r \in {ResourceRecord_deserialize(buf, pos)} :
          /\ pos' = r.pos
          /\ last' = [op |-> "ResourceRecord::deserialize", start |-> pos,
                      kind |-> r.kind, rr |-> r.val]
    /\ UNCHANGED <<buf, enc>>

\* fill_from_slice on a buffer that has been used
FillAgain(slices) ==
    /\ Alive
    /\ last.op # "new"
    /\ \E in_buf \in slices :
          /\ buf' = fill_from_slice(buf, in_buf)
          /\ last' = [op |-> "fill_from_slice", len |-> Len(in_buf),
                      in_buf |-> in_buf, start |-> pos]
    /\ UNCHANGED <<pos, enc>>

Step(num_steps, checks) ==
    /\ Alive
    /\ pos \in BufCursors
    /\ \E r \in {step(pos, num_steps, checks)} :
          /\ pos' = r.pos
          /\ last' = [op |-> "step", start |-> pos, num_steps |-> num_steps,
                      kind |-> r.kind]
    /\ UNCHANGED <<buf, enc>>

Peek ==
    /\ Alive
    /\ pos \in BufCursors
    /\ \E r \in {peek(buf, pos)} :
          last' = [op |-> "peek", start |-> pos, kind |-> r.kind, val |-> r.val]
    /\ UNCHANGED <<buf, pos, enc>>

PeekSlice(start, len, checks) ==
    /\ Alive
    /\ pos \in BufCursors
    /\ \E r \in {peek_slice(buf, start, len, checks)} :
          last' = [op |-> "peek_slice", start |-> start, len |-> len,
                   kind |-> r.kind, val |-> r.val]
    /\ UNCHANGED <<buf, pos, enc>>

\* pop, pop_u16 and pop_u32, started at one of the enumerated cursor values
PopUnsigned(op, cursors) ==
    /\ Alive
    /\ pos \in cursors
    /\ \E r \in {IF op = "pop" THEN pop(buf, pos)
                 ELSE IF op = "pop_u16" THEN pop_u16(buf, pos)
                 ELSE pop_u32(buf, pos)} :
          /\ pos' = r.pos
          /\ last' = [op |-> op, start |-> pos, kind |-> r.kind, val |-> r.val]
    /\ UNCHANGED <<buf, enc>>

\* the u8, u16 or u32 that has PushByte in every byte
SameBytes(op) ==
    IF op = "push" THEN PushByte
    ELSE IF op = "push_u16" THEN PushByte * 257
    ELSE U32(PushByte * 257, PushByte * 257)

\* push, push_u16 and push_u32 of data, started at one of the enumerated
\* cursor values
PushUnsigned(op, data, cursors) ==
    /\ Alive
    /\ pos \in cursors
    /\ \E r \in {IF op = "push" THEN push(buf, pos, data)
                 ELSE IF op = "push_u16" THEN push_u16(buf, pos, data)
                 ELSE push_u32(buf, pos, data)} :
          /\ buf' = r.buf
          /\ pos' = r.pos
          /\ last' = [op |-> op, start |-> pos, data |-> data, kind |-> r.kind]
    /\ UNCHANGED enc

PushSlice(data, checks) ==
    /\ Alive
    /\ pos \in WriteCursors
    /\ \E r \in {push_slice(buf, pos, data, checks)} :
          /\ buf' = r.buf
          /\ pos' = r.pos
          /\ last' = [op |-> "push_slice", start |-> pos, data |-> data,
                      kind |-> r.kind]
    /\ UNCHANGED enc

NextDn ==
    \/ FillFromSlice(DnSlices)
    \/ \E p \in SeekTargets : Seek(p)
    \/ DnDeserialize(SeekTargets)

SpecDn == Init /\ [][NextDn]_vars

NextEnc ==
    \/ \E p \in EncStarts : Seek(p)
    \/ DnSerialize(EncNames)
    \/ DnDeserialize(EncStarts)

SpecEnc == Init /\ [][NextEnc]_vars

NextHdr ==
    \/ FillFromSlice(HdrSlices)
    \/ \E p \in HdrStarts : Seek(p)
    \/ HeaderSerialize(Headers)
    \/ HeaderDeserialize(HdrStarts)

SpecHdr == Init /\ [][NextHdr]_vars

NextMsg ==
    \/ FillFromSlice(MsgSlices)
    \/ \E p \in MsgStarts : Seek(p)
    \/ MessageDeserialize(MsgStarts)

SpecMsg == Init /\ [][NextMsg]_vars

NextRr ==
    \/ FillFromSlice(RrSlices)
    \/ \E p \in RrStarts : Seek(p)
    \/ RrDeserialize(RrStarts)

SpecRr == Init /\ [][NextRr]_vars

NextMsgEnc ==
    \/ \E p \in MsgEncStarts : Seek(p)
    \/ MessageSerialize(Queries)
    \/ MessageDeserialize(MsgEncStarts)

SpecMsgEnc == Init /\ [][NextMsgEnc]_vars

NextBuf ==
    \/ FillFromSlice(FillSlices)
    \/ FillAgain(FillSlices)
    \/ \E p \in BufCursors : Seek(p)
    \/ \E n \in StepSizes, checks \in BOOLEAN : Step(n, checks)
    \/ Peek
    \/ \E start \in PeekStarts, len \in PeekLens, checks \in BOOLEAN :
          PeekSlice(start, len, checks)
    \/ \E op \in {"pop", "pop_u16", "pop_u32"} : PopUnsigned(op, BufCursors)
    \/ \E op \in {"push", "push_u16", "push_u32"} :
          PushUnsigned(op, SameBytes(op), WriteCursors)
    \/ \E data \in PushData, checks \in BOOLEAN : PushSlice(data, checks)

SpecBuf == Init /\ [][NextBuf]_vars

NextPush ==
    \/ MessageNew
    \/ \E checks \in BOOLEAN : PushQuestion(AskedQuestions, checks)
    \/ PushQuestionTimes(ManyQuestions, OftenAsked)

SpecPush == Init /\ [][NextPush]_vars

NextNum ==
    \/ FillFromSlice(NumSlices)
    \/ \E p \in NumCursors : Seek(p)
    \/ \E op \in {"pop_u16", "pop_u32"} : PopUnsigned(op, NumCursors)
    \/ \E op \in {"push_u16", "push_u32"} :
          \E data \in NumValues(op) : PushUnsigned(op, data, NumWriteCursors)

SpecNum == Init /\ [][NextNum]_vars

(***************************************************************************)
(* Claims on DomainName::deserialize (checked under SpecDn)                *)
(***************************************************************************)
DnDone == last.op = "DomainName::deserialize"

\* C1 (as claimed): whenever a name decode follows more than DSER_MAX_JUMPS
\* compression pointers, it returns a TooManyJumps error value to the caller.
\* The code reaches todo!() instead.
C1_TooManyJumpsIsReturned ==
    (DnDone /\ last.jump_count > DSER_MAX_JUMPS) => last.kind = "TooManyJumps"

\* The position of the first compression pointer of the wire name that starts
\* at p: ordinary labels are skipped by their length bytes
RECURSIVE FirstPointerPos(_, _)
FirstPointerPos(b, p) ==
    IF p >= BUF_SIZE \/ b[p] = 0 THEN None
    ELSE IF b[p] >= 192 THEN p
    ELSE FirstPointerPos(b, p + 1 + b[p])

\* C2 (as claimed): after a successful decode that followed at least one
\* pointer the cursor is the decode's starting cursor + 2, for every layout.
C2_CursorIsStartPlus2 ==
    (DnDone /\ last.kind = "Ok" /\ last.jump_count >= 1) => pos = last.start + 2

\* C2 (amended): after a successful decode that followed at least one pointer
\* the cursor is the position of the name's first compression pointer + 2;
\* that is start + 2 exactly when the name starts with the pointer.
C2_CursorIsFirstPointerPlus2 ==
    (DnDone /\ last.kind = "Ok" /\ last.jump_count >= 1) =>
        /\ FirstPointerPos(buf, last.start) # None
        /\ pos = FirstPointerPos(buf, last.start) + 2
        /\ (pos = last.start + 2) <=> (buf[last.start] >= 192)

\* C2 witness: a successful decode with a label before its first pointer
C2_LabelsBeforePointer ==
    /\ DnDone /\ last.kind = "Ok" /\ last.jump_count >= 1
    /\ buf[last.start] < 192
    /\ pos = last.start + buf[last.start] + 3

\* The name at p is a single compression pointer to an earlier position
PointerTarget(b, p) == (b[p] - 192) * 256 + b[p + 1]

SinglePointerToEarlierName(b, p) ==
    /\ p + 1 < BUF_SIZE
    /\ b[p] >= 192
    /\ PointerTarget(b, p) < p
    /\ LET t == DomainName_deserialize(b, PointerTarget(b, p)) IN
       t.kind = "Ok" /\ t.jump_count = 0

\* C3: a name that is one compression pointer to an earlier uncompressed name
\* decodes to the string the earlier occurrence decodes to, and the cursor
\* afterwards is the pointer's own position + 2.
C3_PointerDecodesToTarget ==
    (DnDone /\ SinglePointerToEarlierName(buf, last.start)) =>
        /\ last.kind = "Ok"
        /\ last.dn = DomainName_deserialize(buf, PointerTarget(buf, last.start)).dn
        /\ pos = last.start + 2

\* C3 witness: the pointed-to name is not empty and the cursor is not where
\* the pointed-to name ends
C3_PointerDecoded ==
    /\ DnDone /\ SinglePointerToEarlierName(buf, last.start)
    /\ last.kind = "Ok" /\ Len(last.dn) >= 1
    /\ pos # DomainName_deserialize(buf, PointerTarget(buf, last.start)).pos

\* The labels of an uncompressed wire name at p (each 1..63 ASCII bytes, then
\* a zero byte, all inside the storage), or NotPlain
NotPlain == << <<-1>> >>

RECURSIVE WireLabels(_, _)
WireLabels(b, p) ==
    IF p >= BUF_SIZE THEN NotPlain
    ELSE IF b[p] = 0 THEN <<>>
    ELSE IF b[p] > 63 \/ p + 1 + b[p] >= BUF_SIZE THEN NotPlain
    ELSE LET label == [i \in 1..b[p] |-> b[p + i]]
             rest == WireLabels(b, p + 1 + b[p])
         IN
         IF rest = NotPlain \/ \E i \in 1..Len(label) : label[i] >= 128
         THEN NotPlain
         ELSE <<label>> \o rest

FoldLower(label) ==
    [i \in 1..Len(label) |->
        IF label[i] \in 65..90 THEN label[i] + 32 ELSE label[i]]

RECURSIVE JoinLower(_)
JoinLower(labels) ==
    IF labels = <<>> THEN <<>>
    ELSE IF Len(labels) = 1 THEN FoldLower(labels[1])
    ELSE FoldLower(labels[1]) \o <<Dot>> \o JoinLower(Tail(labels))

RECURSIVE WireSize(_)
WireSize(labels) ==
    IF labels = <<>> THEN 0 ELSE 1 + Len(labels[1]) + WireSize(Tail(labels))

IterBound == (DSER_MAX_JUMPS + 1) * (BUF_SIZE \div 2)

\* the iterations that began at a compression pointer
PointerIters(b, trail) == {i \in 1..Len(trail) : trail[i] < BUF_SIZE /\ b[trail[i]] >= 192}

C23_NoTrailingDot ==
    (DnDone /\ last.kind = "Ok" /\ last.dn # <<>>) => last.dn[Len(last.dn)] # Dot

\* the lengths of the labels of a decoded name
LabelLengths(dn) == {Len(Split(dn)[i]) : i \in 1..Len(Split(dn))}

\* C24 (as claimed): every label of a successfully decoded name is at most 63
\* bytes long, a length byte of 64..191 never being taken as the length of a
\* label.  The code takes every length byte that is not 0 and has not both
\* top bits set as the length of a label.
C24_LabelsAtMost63 ==
    (DnDone /\ last.kind = "Ok") => \A n \in LabelLengths(last.dn) : n <= 63

(***************************************************************************)
(* Claims on DomainName::serialize (checked under SpecEnc)                 *)
(***************************************************************************)
SerDone == last.op = "DomainName::serialize"

\* The wire form of a name: per label one length byte and the label bytes,
\* then a zero byte
RECURSIVE WireForm(_)
WireForm(labels) ==
    IF labels = <<>> THEN <<0>>
    ELSE <<Len(labels[1])>> \o labels[1] \o WireForm(Tail(labels))

BytesAt(b, p, n) == [i \in 1..n |-> b[p + i - 1]]

HasLongLabel(dn) == \E i \in 1..Len(Split(dn)) : Len(Split(dn)[i]) > 63

\* length bytes + label bytes + the zero byte
EncodedSize(dn) == Len(WireForm(Split(dn)))

\* C5 (as claimed): the encoder returns EncodeTooLong for a label over 63
\* bytes and for an encoded size over 255 bytes; otherwise (the encoding
\* fitting the storage) it writes the length-prefixed labels and a zero byte.
C5_EncodeTooLongIsReturned ==
    SerDone =>
        IF HasLongLabel(last.name) \/ EncodedSize(last.name) > 255
        THEN last.kind = "EncodeTooLong"
        ELSE last.start + EncodedSize(last.name) <= BUF_SIZE =>
                /\ last.kind = "Ok"
                /\ pos = last.start + EncodedSize(last.name)
                /\ BytesAt(buf, last.start, EncodedSize(last.name))
                       = WireForm(Split(last.name))

\* A name of one or more non-empty labels of lower-case letters, each at most
\* 63 bytes
RoundTripName(dn) ==
    /\ \A i \in 1..Len(Split(dn)) : Len(Split(dn)[i]) \in 1..63
    /\ \A i \in 1..Len(dn) : dn[i] = Dot \/ dn[i] \in 97..122

Fits(start, dn) == start + EncodedSize(dn) <= BUF_SIZE

\* the decode that follows serialize at p and seek(p)
DecodedAfterEncode ==
    /\ DnDone
    /\ enc.op = "DomainName::serialize" /\ enc.kind = "Ok"
    /\ last.start = enc.start

HdrDecoded == last.op = "Header::deserialize"

\* the 16-bit word at p, big-endian
WordAt(b, p) == b[p] * 256 + b[p + 1]

\* bits lo..hi of a word, as a number
Bits(word, lo, hi) == (word \div Pow2(lo)) % Pow2(hi - lo + 1)

NamedOpCode(v) == IF v = 0 THEN Variant("Query") ELSE Unknown(v)

NamedResponseCode(v) ==
    IF v <= 5
    THEN Variant(<<"NoError", "FormatError", "ServFail", "NameError", "NotImpl",
                   "Refused">>[v + 1])
    ELSE Unknown(v)

\* C7 (as claimed): Header decode sets the opcode to the value of bits 11-14
\* of the flags word and the response code to the value of bits 0-3, named
\* when recognized and Unknown(v) otherwise, and no flags value makes the
\* decode of 12 available bytes fail.  The code casts the masked opcode bits
\* to u8 without shifting them down, so the opcode is always Query.
C7_OpcodeAndRcodeDecoded ==
    (HdrDecoded /\ last.start + 12 <= BUF_SIZE) =>
        LET flags == WordAt(buf, last.start + 2) IN
        /\ last.kind = "Ok"
        /\ last.hdr.op_code = NamedOpCode(Bits(flags, 11, 14))
        /\ last.hdr.response_code = NamedResponseCode(Bits(flags, 0, 3))

HdrCode(hdr) == <<u8_from_OpCode(hdr.op_code), u8_from_ResponseCode(hdr.response_code)>>

\* C8 (as claimed): a Header with opcode and response code in 0..15 is written
\* as exactly 12 bytes, and decoding them from the same cursor returns a
\* Header equal in all fourteen fields.  Fails for every opcode but Query
\* (see C7).
C8_HeaderRoundTrip ==
    /\ (last.op = "Header::serialize" /\ last.start + 12 <= BUF_SIZE
            /\ HdrCode(last.hdr)[1] \in 0..15 /\ HdrCode(last.hdr)[2] \in 0..15)
          => (last.kind = "Ok" /\ pos = last.start + 12)
    /\ (HdrDecoded /\ enc.op = "Header::serialize" /\ enc.kind = "Ok"
            /\ last.start = enc.start
            /\ HdrCode(enc.hdr)[1] \in 0..15 /\ HdrCode(enc.hdr)[2] \in 0..15)
          => (last.kind = "Ok" /\ last.hdr = enc.hdr /\ pos = enc.end)

\* C25 (as claimed): for every Header, OpCode::Unknown(v) and
\* ResponseCode::Unknown(v) of any u8 v included, the flags word written has
\* bit 6 clear, the message type in bit 15 and checking-disabled,
\* authentic-data, recursion-available, recursion-desired, truncation and
\* authoritative-answer in bits 4, 5, 7, 8, 9 and 10.  The code ors the whole
\* u8 of the opcode, shifted by 11, and of the response code into the word.
C25_FlagsFieldsKeptApart ==
    (last.op = "Header::serialize" /\ last.kind = "Ok") =>
        LET flags == WordAt(buf, last.start + 2)
            hdr == last.hdr
        IN
        /\ Bits(flags, 6, 6) = 0
        /\ Bits(flags, 15, 15) = BoolAsU16(hdr.message_type = "Response")
        /\ Bits(flags, 4, 4) = BoolAsU16(hdr.checking_disabled)
        /\ Bits(flags, 5, 5) = BoolAsU16(hdr.authentic_data)
        /\ Bits(flags, 7, 7) = BoolAsU16(hdr.recursion_available)
        /\ Bits(flags, 8, 8) = BoolAsU16(hdr.recursion_desired)
        /\ Bits(flags, 9, 9) = BoolAsU16(hdr.truncation)
        /\ Bits(flags, 10, 10) = BoolAsU16(hdr.authoritative_answer)

(***************************************************************************)
(* Claims on Message::deserialize (checked under SpecMsg)                  *)
(***************************************************************************)
MsgDone == last.op = "Message::deserialize"

MsgOk == MsgDone /\ last.kind = "Ok"

\* the four counts on the wire of the message decoded last
WireCounts == [i \in 1..4 |-> WordAt(buf, last.start + 2 + 2 * i)]

\* the decode calls that a message with the counts n makes, in wire order
CallsInWireOrder(n) ==
    <<"Header">> \o [i \in 1..n[1] |-> "Question"]
                 \o [i \in 1..(n[2] + n[3] + n[4]) |-> "ResourceRecord"]

\* C9: after a successful Message decode the four sequences are as long as
\* the four counts of the decoded header (which are the counts on the wire),
\* and the entries were decoded in wire order: the header, then every
\* question, then every answer, authority and additional record, each one
\* starting where the one before it ended, each stored entry being what its
\* decoder yields at that place, and the cursor left after the last one.
C9_CountsAndWireOrder ==
    MsgOk =>
        LET m == last.msg
            c == last.calls
            qd == m.header.question_count
            an == m.header.answer_count
            ns == m.header.authority_count
            ar == m.header.additional_count
        IN
        /\ <<qd, an, ns, ar>> = WireCounts
        /\ Len(m.questions) = qd
        /\ Len(m.answers) = an
        /\ Len(m.authorities) = ns
        /\ Len(m.additionals) = ar
        /\ [i \in 1..Len(c) |-> c[i].what] = CallsInWireOrder(<<qd, an, ns, ar>>)
        /\ c[1].start = last.start
        /\ \A i \in 2..Len(c) : c[i].start = c[i - 1].end
        /\ pos = c[Len(c)].end
        /\ \A i \in 1..qd :
              m.questions[i] = Question_deserialize(buf, c[1 + i].start).val
        /\ \A i \in 1..an :
              m.answers[i] = ResourceRecord_deserialize(buf, c[1 + qd + i].start).val
        /\ \A i \in 1..ns :
              m.authorities[i]
                  = ResourceRecord_deserialize(buf, c[1 + qd + an + i].start).val
        /\ \A i \in 1..ar :
              m.additionals[i]
                  = ResourceRecord_deserialize(buf, c[1 + qd + an + ns + i].start).val

\* C9 witness: a message with one question (name "a"), one A answer
\* (93.184.216.34, named by a pointer to the question), one authority and one
\* additional record was decoded
C9_FourSectionsDecoded ==
    /\ MsgOk
    /\ Len(last.msg.questions) = 1
    /\ last.msg.questions[1].domain_name = <<97>>
    /\ Len(last.msg.answers) = 1
    /\ last.msg.answers[1].domain_name = <<97>>
    /\ last.msg.answers[1].rrdata = [tag |-> "A", ip |-> <<93, 184, 216, 34>>, len |-> 0]
    /\ Len(last.msg.authorities) = 1
    /\ Len(last.msg.additionals) = 1

\* the least number of bytes that a message with the counts n takes: 12 for
\* the header, 5 for a question, 11 for a record
LeastSize(n) == 12 + 5 * n[1] + 11 * (n[2] + n[3] + n[4])

\* the values that Result<Message> can hold
Returned == {"Ok", "IoError", "ReadOverrun", "WriteOverrun"}

\* C10: Message decode returns; when one of its decode calls fails that call
\* is the last one made and its error is the error returned; a success
\* carries as many entries as the counts declare; and counts that run past
\* the end of the buffer give ReadOverrun.  Fails when a name in the message
\* has more than DSER_MAX_JUMPS pointers: the process is aborted (see C1).
C10_FirstErrorIsReturned ==
    MsgDone =>
        LET c == last.calls
            failed == {i \in 1..Len(c) : c[i].kind # "Ok"}
        IN
        /\ last.kind \in Returned
        /\ failed # {} => (failed = {Len(c)} /\ last.kind = c[Len(c)].kind)
        /\ failed = {} => last.kind = "Ok"
        /\ last.kind = "Ok" =>
              <<Len(last.msg.questions), Len(last.msg.answers),
                Len(last.msg.authorities), Len(last.msg.additionals)>> = WireCounts
        /\ (c[1].kind = "Ok" /\ last.start + LeastSize(WireCounts) > BUF_SIZE)
              => last.kind = "ReadOverrun"

\* the size on the wire of the name at p: its labels and zero byte when it is
\* uncompressed, 2 when it is one pointer to an earlier uncompressed name
\* (None for any other layout)
WireNameSize(b, p) ==
    IF WireLabels(b, p) # NotPlain THEN WireSize(WireLabels(b, p)) + 1
    ELSE IF SinglePointerToEarlierName(b, p) THEN 2
    ELSE None

\* the length of the message at the start of b that has one question and one
\* answer: header, name + type + class, name + type + class + ttl + rdlength
\* + rdata of rdlength bytes (4 for an A record); None when the bytes are not
\* such a message
OneQuestionOneAnswerLength(b) ==
    LET qn == WireNameSize(b, 12)
        rr == 12 + qn + 4
        rn == WireNameSize(b, rr)
        rdlength == WordAt(b, rr + rn + 8)
    IN
    IF qn = None \/ rr >= BUF_SIZE THEN None
    ELSE IF rn = None \/ rr + rn + 10 > BUF_SIZE THEN None
    ELSE IF WordAt(b, rr + rn) = 1 /\ rdlength # 4 THEN None
    ELSE IF rr + rn + 10 + rdlength > BUF_SIZE THEN None
    ELSE rr + rn + 10 + rdlength

\* C12 (as claimed): a message of L bytes at the start of the buffer whose
\* header declares 1 question, 1 answer and no other record decodes to one
\* Question and one ResourceRecord, and the cursor is left at L.  Fails when
\* the answer is of an unrecognized type with rdata (see C11).
C12_OneQuestionOneAnswer ==
    (MsgDone /\ last.start = 0 /\ WireCounts = <<1, 1, 0, 0>>
        /\ OneQuestionOneAnswerLength(buf) # None) =>
        /\ last.kind = "Ok"
        /\ Len(last.msg.questions) = 1
        /\ Len(last.msg.answers) = 1
        /\ Len(last.msg.authorities) = 0
        /\ Len(last.msg.additionals) = 0
        /\ pos = OneQuestionOneAnswerLength(buf)

(***************************************************************************)
(* Claims on ResourceRecord::deserialize (checked under SpecRr)            *)
(***************************************************************************)
RrDone == last.op = "ResourceRecord::deserialize"

\* where the name of the record decoded last ends, i.e. where its type field
\* starts (None when the name does not decode)
RrNameEnd ==
    LET dn == DomainName_deserialize(buf, last.start) IN
    IF dn.kind = "Ok" THEN dn.pos ELSE None

\* C11 (as claimed): decoding a record of an unrecognized type leaves the
\* cursor rdlength bytes past the rdlength field, where the next record of
\* the message starts.  The code leaves it right after the rdlength field.
C11_UnknownTypeSkipsRdata ==
    (RrDone /\ last.kind = "Ok" /\ last.rr.rrtype.tag = "Unknown") =>
        pos = RrNameEnd + 10 + WordAt(buf, RrNameEnd + 8)

\* C13: a record whose type field is 1 and whose 14 bytes after the name lie
\* in the storage decodes to an A record: exactly 4 bytes are read after the
\* rdlength field, they are the octets of the address in wire order, and
\* name, type, class, ttl and rdlength are the values in front of them.
C13_ARecordDecodes ==
    (RrDone /\ RrNameEnd # None /\ RrNameEnd + 14 <= BUF_SIZE
        /\ WordAt(buf, RrNameEnd) = 1) =>
        LET e == RrNameEnd IN
        /\ last.kind = "Ok"
        /\ pos = e + 10 + 4
        /\ last.rr.domain_name = DomainName_deserialize(buf, last.start).dn
        /\ last.rr.rrtype = Variant("A")
        /\ last.rr.rrclass
              = (IF WordAt(buf, e + 2) = 1 THEN Variant("IN")
                 ELSE Unknown(WordAt(buf, e + 2)))
        /\ last.rr.ttl = U32(WordAt(buf, e + 4), WordAt(buf, e + 6))
        /\ last.rr.rrdata_len = WordAt(buf, e + 8)
        /\ last.rr.rrdata
              = [tag |-> "A", len |-> 0,
                 ip |-> <<buf[e + 10], buf[e + 11], buf[e + 12], buf[e + 13]>>]

\* C13 witness: 93.184.216.34 was decoded from a record named by a pointer,
\* whose rdlength field is not 4
C13_AddressDecoded ==
    /\ RrDone /\ last.kind = "Ok"
    /\ last.rr.domain_name = <<98>>
    /\ last.rr.rrdata_len = 2
    /\ last.rr.rrdata.tag = "A"
    /\ last.rr.rrdata.ip = <<93, 184, 216, 34>>

(***************************************************************************)
(* Claims on Message::serialize (checked under SpecMsgEnc)                 *)
(***************************************************************************)
\* the 12 bytes of a header on the wire
HeaderWire(hdr) == BytesAt(Header_serialize(hdr, NewBuf, 0).buf, 0, 12)

U16Wire(v) == <<v \div 256, v % 256>>

\* the number of a query type or class: A and IN are 1
QueryCode(q) == IF q.tag = "Unknown" THEN q.val ELSE 1

RECURSIVE QuestionsWire(_)
QuestionsWire(questions) ==
    IF questions = <<>> THEN <<>>
    ELSE WireForm(IF Head(questions).domain_name = <<>> THEN <<>>
                  ELSE Split(Head(questions).domain_name))
             \o U16Wire(QueryCode(Head(questions).qtype))
             \o U16Wire(QueryCode(Head(questions).qclass))
             \o QuestionsWire(Tail(questions))

MessageWire(msg) == HeaderWire(msg.header) \o QuestionsWire(msg.questions)

\* C14 (as claimed): Message encode writes the 12 header bytes and then each
\* question (name, type, class) into the output buffer at the cursor, and
\* decoding these bytes gives the header and the questions back.  The code
\* writes nothing.
C14_EncodeWritesHeaderAndQuestions ==
    (last.op = "Message::serialize"
        /\ last.start + Len(MessageWire(last.msg)) <= BUF_SIZE) =>
        LET wire == MessageWire(last.msg)
            back == Message_deserialize(buf, last.start)
        IN
        /\ last.kind = "Ok"
        /\ BytesAt(buf, last.start, Len(wire)) = wire
        /\ pos = last.start + Len(wire)
        /\ back.kind = "Ok"
        /\ back.msg.header = last.msg.header
        /\ back.msg.questions = last.msg.questions

(***************************************************************************)
(* Claims on Message::push_question (checked under SpecPush)               *)
(***************************************************************************)
\* C26 (as claimed): starting from Message::new(), after any sequence of
\* push_question calls question_count is the number of questions, and the
\* other three counts are 0 and the three record sequences empty.
\* The count is a u16 incremented without a check: call 65536 overflows it.
C26_CountIsNumberOfQuestions ==
    last.op \in {"Message::new", "push_question"} =>
        /\ last.kind = "Ok"
        /\ last.msg.header.question_count = Len(last.msg.questions)
        /\ last.msg.header.answer_count = 0
        /\ last.msg.header.authority_count = 0
        /\ last.msg.header.additional_count = 0
        /\ last.msg.answers = <<>>
        /\ last.msg.authorities = <<>>
        /\ last.msg.additionals = <<>>

(***************************************************************************)
(* Claims on BytePacketBuffer (checked under SpecBuf)                      *)
(***************************************************************************)
\* the operations that return a value or an error
ResultOps ==
    {"step", "peek", "peek_slice", "pop", "pop_u16", "pop_u32", "push",
     "push_slice", "push_u16", "push_u32"}

\* C15 (as claimed): no buffer operation aborts, whatever the cursor and the
\* arguments are: each returns a value or ReadOverrun / WriteOverrun, and no
\* cursor or range arithmetic overflows (step leaves the cursor at the sum).
\* The sums in step, peek_slice and push_slice are unchecked.
C15_NoOperationAborts ==
    last.op \in ResultOps =>
        /\ last.kind \in {"Ok", "ReadOverrun", "WriteOverrun"}
        /\ last.op = "step" => pos = last.start + last.num_steps

\* C16: peek and pop fail with ReadOverrun, and push with WriteOverrun,
\* exactly when the cursor is >= BUF_SIZE; a failure changes neither the
\* cursor nor the contents; on success peek returns the byte at the cursor
\* and leaves the cursor, pop returns it and push writes its byte there, and
\* both move the cursor by exactly 1.
C16_CursorBoundEnforced ==
    [][/\ last'.op = "peek" =>
             /\ last'.kind = (IF pos >= BUF_SIZE THEN "ReadOverrun" ELSE "Ok")
             /\ last'.kind = "Ok" => last'.val = buf[pos]
             /\ pos' = pos /\ buf' = buf
       /\ last'.op = "pop" =>
             /\ last'.kind = (IF pos >= BUF_SIZE THEN "ReadOverrun" ELSE "Ok")
             /\ last'.kind = "Ok" => (last'.val = buf[pos] /\ pos' = pos + 1)
             /\ last'.kind # "Ok" => pos' = pos
             /\ buf' = buf
       /\ last'.op = "push" =>
             /\ last'.kind = (IF pos >= BUF_SIZE THEN "WriteOverrun" ELSE "Ok")
             /\ last'.kind = "Ok" =>
                   (buf' = [buf EXCEPT ![pos] = PushByte] /\ pos' = pos + 1)
             /\ last'.kind # "Ok" => (pos' = pos /\ buf' = buf)
      ]_vars

\* C16 witness: a push at the last position succeeded after the cursor was
\* moved there, and the cursor is now BUF_SIZE
C16_PushedAtLastPosition ==
    /\ last.op = "push" /\ last.kind = "Ok"
    /\ last.start = BUF_SIZE - 1
    /\ buf[BUF_SIZE - 1] = PushByte
    /\ pos = BUF_SIZE

\* C17 (as claimed): peek_slice(start, len) fails with ReadOverrun exactly
\* when start + len >= BUF_SIZE and otherwise returns the len bytes at start.
\* Fails for a start and len whose sum does not fit usize (see C15).
C17_PeekSliceBound ==
    last.op = "peek_slice" =>
        /\ last.kind
              = (IF last.start + last.len >= BUF_SIZE THEN "ReadOverrun" ELSE "Ok")
        /\ last.kind = "Ok" => last.val = BytesAt(buf, last.start, last.len)

\* C18 (as claimed): push_slice(data) has the result, the contents and the
\* final cursor of a push of each byte of data in order.  The code first
\* refuses every data with pos + len >= BUF_SIZE, writing nothing.
C18_PushSliceIsPushEach ==
    [][last'.op = "push_slice" =>
          LET each == PushEach(buf, pos, last'.data) IN
          /\ last'.kind = each.kind
          /\ buf' = each.buf
          /\ pos' = each.pos
      ]_vars

\* C19 (as claimed): after fill_from_slice(s) with len(s) < BUF_SIZE every
\* position from len(s) on holds zero, whatever was done to the buffer before.
\* The code leaves these positions as they were.
C19_RestIsZeroAfterFill ==
    (last.op = "fill_from_slice" /\ last.len < BUF_SIZE) =>
        \A i \in last.len..(BUF_SIZE - 1) : buf[i] = 0

\* C20: after fill_from_slice(s) the first min(len(s), BUF_SIZE) positions
\* hold the bytes of s in order (for len(s) >= BUF_SIZE that is the whole
\* storage, the rest of s being dropped), and the cursor is where it was.
C20_FillThenReadBack ==
    last.op = "fill_from_slice" =>
        LET s == last.in_buf
            n == IF Len(s) < BUF_SIZE THEN Len(s) ELSE BUF_SIZE
        IN
        /\ last.len = Len(s)
        /\ \A i \in 0..(n - 1) : buf[i] = s[i + 1]
        /\ pos = last.start

\* C20 witness: a slice longer than the storage was filled into a used buffer
\* whose cursor is not at the front
C20_LongSliceFilled ==
    /\ last.op = "fill_from_slice"
    /\ last.len > BUF_SIZE
    /\ buf[BUF_SIZE - 1] = last.in_buf[BUF_SIZE]
    /\ pos = BUF_SIZE - 1

(***************************************************************************)
(* Claims on the multi-byte reads and writes (checked under SpecNum)       *)
(***************************************************************************)
\* C21: pop_u16 and pop_u32 read big-endian from any cursor that leaves them
\* enough bytes: pop_u16 returns b0 * 256 + b1 and moves the cursor by 2,
\* pop_u32 returns b0 * 2^24 + b1 * 2^16 + b2 * 2^8 + b3 (here as its halves
\* b0 * 256 + b1 and b2 * 256 + b3) and moves it by 4; and after a push_u16(v)
\* or push_u32(v) that had room, seeking back to where it started and popping
\* the same width returns v and the cursor the push left.
C21_BigEndianAndRoundTrip ==
    /\ (last.op = "pop_u16" /\ last.start + 2 <= BUF_SIZE) =>
          /\ last.kind = "Ok"
          /\ last.val = buf[last.start] * 256 + buf[last.start + 1]
          /\ pos = last.start + 2
    /\ (last.op = "pop_u32" /\ last.start + 4 <= BUF_SIZE) =>
          /\ last.kind = "Ok"
          /\ last.val = U32(buf[last.start] * 256 + buf[last.start + 1],
                            buf[last.start + 2] * 256 + buf[last.start + 3])
          /\ pos = last.start + 4
    /\ (last.op = "push_u16" /\ last.start + 2 <= BUF_SIZE) =>
          /\ last.kind = "Ok"
          /\ pop_u16(buf, last.start)
                = [kind |-> "Ok", val |-> last.data, pos |-> pos]
    /\ (last.op = "push_u32" /\ last.start + 4 <= BUF_SIZE) =>
          /\ last.kind = "Ok"
          /\ pop_u32(buf, last.start)
                = [kind |-> "Ok", val |-> last.data, pos |-> pos]

\* C21 witness: 0x1FFACC37 was read from the last four positions, where only
\* a push_u32 of it can have put it
C21_PushedValueReadBack ==
    /\ last.op = "pop_u32" /\ last.kind = "Ok"
    /\ last.start = BUF_SIZE - 4
    /\ last.val = U32(8186, 52279)
    /\ BytesAt(buf, BUF_SIZE - 4, 4) = <<31, 250, 204, 55>>
    /\ pos = BUF_SIZE

\* C27: pop_u16 and pop_u32 return ReadOverrun exactly when fewer than 2 and
\* 4 bytes are left at the cursor, and then the bytes popped before the
\* failing pop stay consumed: the cursor is left at BUF_SIZE when it started
\* below BUF_SIZE and is unchanged when it started at or above it; the
\* contents are unchanged.
C27_FailedReadKeepsPops ==
    [][/\ last'.op = "pop_u16" => (last'.kind = "ReadOverrun" <=> pos + 2 > BUF_SIZE)
       /\ last'.op = "pop_u32" => (last'.kind = "ReadOverrun" <=> pos + 4 > BUF_SIZE)
       /\ (last'.op \in {"pop_u16", "pop_u32"} /\ last'.kind = "ReadOverrun") =>
             /\ pos' = (IF pos < BUF_SIZE THEN BUF_SIZE ELSE pos)
             /\ buf' = buf
      ]_vars

\* C27 witness: a pop_u32 started three bytes before the end failed and left
\* the cursor at the end
C27_ThreeBytesConsumed ==
    /\ last.op = "pop_u32" /\ last.kind = "ReadOverrun"
    /\ last.start = BUF_SIZE - 3
    /\ pos = BUF_SIZE

====
